---- MODULE Spec2Model ----
(***************************************************************************)
(* A model of dnsviz/resolver.py: the answer extractor (DNSAnswer and      *)
(* DNSAnswerNoAnswerAllowed) and the round-based scheduler of              *)
(* Resolver.query_multiple.                                                *)
(*                                                                         *)
(* Conventions.  Python's None is the empty sequence and a present value x *)
(* is <<x>>, so optional values of any type stay comparable.  Names are    *)
(* the numbers 0..MaxName, servers the numbers 1..MaxServers.  The clock   *)
(* is the wall clock in ticks, counted from the moment query_multiple was  *)
(* called (the program uses only differences of its readings).  Every call *)
(* of time.time() (lines 152, 153 and 154) reads it anew: between two      *)
(* readings it has moved on by the time the program took, or has been set  *)
(* back.  While execute_queries waits it advances by the time the round's  *)
(* queries take, each of which                                             *)
(* returns within the timeout it was given.                                *)
(***************************************************************************)
EXTENDS Integers, Sequences, FiniteSets, TLC

VARIABLES
    pc,               \* position of the caller in Resolver / query_multiple
    ctor_args,        \* arguments of Resolver(...)
    self,             \* the Resolver's fields: None until __init__ has set them
    allow_noanswer,   \* kwargs.get('allow_noanswer', False)
    batch,            \* *query_tuples as passed by the caller (a sequence)
    query_tuples,     \* set(query_tuples)
    servers,          \* the server order of this call
    valid_servers,    \* question -> set of servers
    answers,          \* dict question -> outcome (its domain grows)
    attempts,         \* question -> attempt counter
    tuples_to_query,  \* the pending questions
    queries,          \* dict question -> query of the current round
    todo,             \* questions the current for loop has still to visit
    start,            \* time.time() at line 152
    now,              \* time.time() at line 154
    clock,            \* the wall clock when the program last looked or waited
    sent,             \* history: question -> server -> queries dispatched
    hard_failed,      \* history: question -> servers that failed hard for it
    only_timeouts,    \* history: every response so far was a pure timeout
    scripted,         \* history: every response so far followed the 3-server script
    last_response,    \* history: the response the last pass of line 178 handled
    call_orders,      \* history: the server order of every call so far
    extract_args,     \* arguments of a direct call of the extractor
    extract_result    \* what that call produced

vars == <<pc, ctor_args, self, allow_noanswer, batch, query_tuples, servers,
          valid_servers, answers, attempts, tuples_to_query, queries, todo,
          start, now, clock, sent, hard_failed, only_timeouts, scripted,
          last_response, call_orders, extract_args, extract_result>>

config_vars == <<ctor_args, self, allow_noanswer, batch>>

batch_vars == <<query_tuples, servers, valid_servers, answers, attempts,
                tuples_to_query, queries, todo, start, now>>

history_vars == <<sent, hard_failed, only_timeouts, scripted, last_response,
                  call_orders>>

extract_vars == <<extract_args, extract_result>>

(***************************************************************************)
(* Bounds of the model.                                                    *)
(***************************************************************************)
MaxServers == 3
MaxAttempts == 2
MaxLifetime == 2
MaxTimeout == 1
MaxBatch == 2
MaxQueries == 4
MaxShuffled == 2
MaxName == 2
MaxChain == 21
MaxCalls == 2
MaxDelay == 2
MaxJump == 1

(***************************************************************************)
(* Program constants.                                                      *)
(***************************************************************************)
MAX_CNAME_REDIRECTION == 20

None == <<>>
Some(x) == <<x>>
Val(o) == o[1]

Min(a, b) == IF a <= b THEN a ELSE b
Max(a, b) == IF a >= b THEN a ELSE b
Range(s) == {s[i] : i \in DOMAIN s}

RESPONSE_ERROR_TIMEOUT == "TIMEOUT"
RESPONSE_ERROR_NETWORK_ERROR == "NETWORK_ERROR"
RESPONSE_ERROR_OTHER == "FORMERR"
NOERROR == "NOERROR"
NXDOMAIN == "NXDOMAIN"
RdTypes == {"A", "CNAME"}

(***************************************************************************)
(* DNS messages: a response code and an answer section, a set of record    *)
(* sets [name, rdtype, target] with at most one per (name, rdtype).  The   *)
(* target of a CNAME record set is <<name>>; other record sets have none.  *)
(***************************************************************************)
RRset(name, rdtype, target) == [name |-> name, rdtype |-> rdtype, target |-> target]
ARRset(name) == RRset(name, "A", None)
CNAMERRset(name, target) == RRset(name, "CNAME", Some(target))
Message(rcode, answer) == [rcode |-> rcode, answer |-> answer]

\* response.find_rrset(response.answer, name, IN, rdtype): the matching
\* record sets; the empty set stands for KeyError.
find_rrset_any_name(answer, name, rdtype) ==
    {rr \in answer : rr.rdtype = rdtype}

find_rrset(answer, name, rdtype) ==
    {rr \in answer : rr.name = name /\ rr.rdtype = rdtype}

TheRRset(found) == CHOOSE rr \in found : TRUE

\* The test of the while loop of DNSAnswer.__init__ (line 61); broke records
\* the break of line 70.
ChaseContinueOffByOne(st) == st.i <= MAX_CNAME_REDIRECTION /\ ~st.broke

ChaseContinue(st) == st.i < MAX_CNAME_REDIRECTION /\ ~st.broke

\* One pass of the loop body (lines 62-71) on the loop state
\* st = [i, qname_sought, rrset, broke, iters]; iters counts the passes.
ChaseStep(answer, rdtype, st) ==
    LET found == find_rrset(answer, st.qname_sought, rdtype)
        cname == find_rrset(answer, st.qname_sought, "CNAME")
    IN  IF found # {}
        THEN \* lines 63-64, then line 71
             [st EXCEPT !.rrset = Some(TheRRset(found)),
                        !.i = MAX_CNAME_REDIRECTION + 1,
                        !.iters = @ + 1]
        ELSE IF cname # {}
        THEN \* lines 67-68, then line 71
             [st EXCEPT !.qname_sought = Val(TheRRset(cname).target),
                        !.i = @ + 1,
                        !.iters = @ + 1]
        ELSE \* line 70
             [st EXCEPT !.broke = TRUE, !.iters = @ + 1]

RECURSIVE ChaseLoop(_, _, _)
ChaseLoop(answer, rdtype, st) ==
    IF ChaseContinue(st)
    THEN ChaseLoop(answer, rdtype, ChaseStep(answer, rdtype, st))
    ELSE st

\* Lines 59-60: the loop state before the first pass.
ChaseStart(qname) ==
    [i |-> 0, qname_sought |-> qname, rrset |-> None, broke |-> FALSE, iters |-> 0]

(***************************************************************************)
(* Outcomes: what query_multiple stores in answers.  An Answer carries the *)
(* server and the record set (None when none was found and that is         *)
(* tolerated); the errors carry neither.                                   *)
(***************************************************************************)
Outcome(kind, server, rrset) == [kind |-> kind, server |-> server, rrset |-> rrset]
Answer(server, rrset) == Outcome("Answer", Some(server), rrset)
ErrNXDOMAIN == Outcome("NXDOMAIN", None, None)
ErrNoAnswer == Outcome("NoAnswer", None, None)
ErrNoNameservers == Outcome("NoNameservers", None, None)
ErrTimeout == Outcome("Timeout", None, None)
OutcomeKinds == {"Answer", "NXDOMAIN", "NoAnswer", "NoNameservers", "Timeout"}

\* DNSAnswer._handle_nxdomain (lines 75-77).
handle_nxdomain(response) == response.rcode = NXDOMAIN

\* _handle_noanswer of DNSAnswer (lines 79-81) and of
\* DNSAnswerNoAnswerAllowed (lines 87-88): does it raise NoAnswer?
handle_noanswer_not_overridden(tolerant, rrset) == rrset = None

handle_noanswer(tolerant, rrset) == ~tolerant /\ rrset = None

\* answer_cls(qname, rdtype, response, server) of line 183 with the except
\* clause of lines 184-185: the constructed answer or the error raised.
DNSAnswer(tolerant, qname, rdtype, response, server) ==
    IF handle_nxdomain(response) THEN ErrNXDOMAIN
    ELSE LET st == ChaseLoop(response.answer, rdtype, ChaseStart(qname))
         IN  IF handle_noanswer(tolerant, st.rrset) THEN ErrNoAnswer
             ELSE Answer(server, st.rrset)

(***************************************************************************)
(* What the query-execution collaborator hands back for one query: the     *)
(* completeness and validity flags, the message (None when there is none)  *)
(* and the error classification (None when there is none).                 *)
(***************************************************************************)
Response(complete, valid, message, error) ==
    [complete |-> complete, valid |-> valid, message |-> message, error |-> error]

\* line 181
IsCompleteValid(response) == response.complete /\ response.valid

\* lines 189-190
IsHardFailure(response) ==
    \/ response.message # None
    \/ response.error \notin {Some(RESPONSE_ERROR_TIMEOUT), Some(RESPONSE_ERROR_NETWORK_ERROR)}

IsPureTimeout(response) ==
    /\ ~IsCompleteValid(response)
    /\ response.message = None
    /\ response.error = Some(RESPONSE_ERROR_TIMEOUT)

IsMalformed(response) ==
    /\ ~IsCompleteValid(response)
    /\ response.message # None

(***************************************************************************)
(* The inputs the model draws from.                                        *)
(***************************************************************************)
Servers == 1..MaxServers
Names == 0..MaxName
Questions == {<<0, "A", "IN">>, <<1, "A", "IN">>}

\* Server lists up to a renaming of the (opaque) addresses: every entry is an
\* address already listed or the next unused one.  Repeated addresses stay.
ServerLists ==
    {l \in UNION {[1..n -> Servers] : n \in 0..MaxServers} :
        \A i \in DOMAIN l : \A v \in 1..(l[i] - 1) : \E j \in 1..(i - 1) : l[j] = v}

Batches == UNION {[1..n -> Questions] : n \in 0..MaxBatch}

Optional(max) == {None} \cup {Some(n) : n \in 0..max}

\* Resolvers that shuffle are given at most MaxShuffled servers.
CtorArgs ==
    {args \in [servers : ServerLists, timeout : 1..MaxTimeout,
               max_attempts : Optional(MaxAttempts),
               lifetime : Optional(MaxLifetime), shuffle : BOOLEAN] :
        args.shuffle => Len(args.servers) <= MaxShuffled}

\* The messages servers answer the scheduler's questions with: the name does
\* not exist; no records; an address at name 0 and an alias from 1 to 0.
SchedMessages ==
    {Message(NXDOMAIN, {}), Message(NOERROR, {}),
     Message(NOERROR, {ARRset(0), CNAMERRset(1, 0)})}

Responses ==
    {Response(TRUE, TRUE, Some(m), None) : m \in SchedMessages}
    \cup {Response(FALSE, FALSE, None, Some(RESPONSE_ERROR_TIMEOUT)),
          Response(FALSE, FALSE, None, Some(RESPONSE_ERROR_NETWORK_ERROR)),
          Response(FALSE, FALSE, None, Some(RESPONSE_ERROR_OTHER)),
          Response(TRUE, FALSE, Some(Message(NOERROR, {})), None)}

EmptyDict == [q \in {} |-> None]

\* d[k] = v on a dict
DictSet(d, k, v) == [x \in DOMAIN d \cup {k} |-> IF x = k THEN v ELSE d[x]]

\* random.shuffle(servers) on a copy (lines 146-147): any rearrangement
Shuffles(l) ==
    {[i \in DOMAIN l |-> l[f[i]]] :
        f \in {g \in [DOMAIN l -> DOMAIN l] : \A i, j \in DOMAIN l : g[i] = g[j] => i = j}}

(***************************************************************************)
(* Resolver.query_multiple, lines 130-198.                                 *)
(***************************************************************************)
S == Val(self)

\* By how much the clock differs from one call of time.time() to the next
\* (lines 152-154): the time the program took in between, or less than
\* nothing when the wall clock was set back.
ClockSteps == (0 - MaxJump)..MaxDelay

\* self._servers after lines 145-149, given what it was and the order the
\* call uses: the shuffle works on a copy (line 146).
ConfiguredAfterInPlace(configured, order) == order

ConfiguredAfter(configured, order) == configured

\* query_tuples.difference(answers), lines 151 and 193
PendingOnlyUnanswered(tuples, ans) ==
    {q \in tuples : q \notin DOMAIN ans \/ ans[q].kind # "Answer"}

PendingAll(tuples, ans) == tuples

Pending(tuples, ans) == tuples \ DOMAIN ans

\* The second conjunct of the loop test of line 153.
WithinLifetimeAlways(t) == TRUE

WithinLifetime(t) ==
    IF S.lifetime = None THEN TRUE ELSE t - start < Val(S.lifetime)

\* cycle_num >= self._max_attempts (line 164).  The comparison is Python 2's:
\* with max_attempts None it is true of every number.
CycleExceededLate(cycle_num) ==
    IF S.max_attempts = None THEN TRUE ELSE cycle_num > Val(S.max_attempts)

CycleExceeded(cycle_num) ==
    IF S.max_attempts = None THEN TRUE ELSE cycle_num >= Val(S.max_attempts)

\* line 170, evaluated only with a lifetime that is a number; t is now
QueryTimeoutPerAttemptOnly(t) == S.timeout

QueryTimeout(t) == Min(S.timeout, Max((start + Val(S.lifetime)) - t, 0))

\* server in valid_servers[query_tuple] (line 169)
ServerUsableAlways(q, server) == TRUE

ServerUsable(q, server) == server \in valid_servers[q]

\* The while loop of lines 161-174 for one question, from attempt counter
\* att: what it ends with and the counter it leaves.
RECURSIVE DispatchCountSkipsOnly(_, _)
DispatchCountSkipsOnly(q, att) ==
    LET cycle_num == att \div Len(servers)
        server_index == att % Len(servers)
        server == servers[server_index + 1]
    IN  IF CycleExceeded(cycle_num)
        THEN [kind |-> "Timeout", attempts |-> att, server |-> None]
        ELSE IF ServerUsable(q, server)
        THEN IF S.lifetime = None
             THEN [kind |-> "TypeError", attempts |-> att, server |-> Some(server)]
             ELSE [kind |-> "query", attempts |-> att, server |-> Some(server)]
        ELSE DispatchCountSkipsOnly(q, att + 1)

RECURSIVE Dispatch(_, _)
Dispatch(q, att) ==
    IF Len(servers) = 0
    THEN \* divmod by zero raises ZeroDivisionError at line 162
         [kind |-> "ZeroDivisionError", attempts |-> att, server |-> None]
    ELSE
    LET cycle_num == att \div Len(servers)
        server_index == att % Len(servers)
        server == servers[server_index + 1]
    IN  IF CycleExceeded(cycle_num)
        THEN [kind |-> "Timeout", attempts |-> att, server |-> None]
        ELSE IF ServerUsable(q, server)
        THEN IF S.lifetime = None
             THEN \* start + None raises TypeError at line 170
                  [kind |-> "TypeError", attempts |-> att, server |-> Some(server)]
             ELSE [kind |-> "query", attempts |-> att + 1, server |-> Some(server)]
        ELSE Dispatch(q, att + 1)

\* lines 157-174 for one question of the for loop
DecideNoEmptyCheck(q) ==
    IF Len(servers) = 0
    THEN [kind |-> "NoNameservers", attempts |-> attempts[q], server |-> None]
    ELSE Dispatch(q, attempts[q])

DecideWithoutEmptyTest(q) == Dispatch(q, attempts[q])

Decide(q) ==
    IF valid_servers[q] = {}
    THEN [kind |-> "NoNameservers", attempts |-> attempts[q], server |-> None]
    ELSE Dispatch(q, attempts[q])

\* valid_servers[query_tuple].remove(server), line 191
RemoveServerEverywhere(valid, q, server) ==
    [p \in DOMAIN valid |-> valid[p] \ {server}]

RemoveServerNoop(valid, q, server) == valid

RemoveServer(valid, q, server) ==
    [valid EXCEPT ![q] = @ \ {server}]

\* lines 195-196
FinalAnswersNone(ans, pending) == ans

FinalAnswers(ans, pending) ==
    [q \in DOMAIN ans \cup pending |-> IF q \in pending THEN ErrTimeout ELSE ans[q]]

\* The most queries a call with these arguments can dispatch.
QueryBudget(args, b) ==
    IF args.max_attempts = None THEN 0
    ELSE Cardinality(Range(b)) * Len(args.servers) * Val(args.max_attempts)

Init ==
    /\ pc = "new"
    /\ ctor_args \in CtorArgs
    /\ self = None
    /\ allow_noanswer \in BOOLEAN
    /\ batch \in Batches
    /\ QueryBudget(ctor_args, batch) <= MaxQueries
    /\ query_tuples = {}
    /\ servers = <<>>
    /\ valid_servers = EmptyDict
    /\ answers = EmptyDict
    /\ attempts = EmptyDict
    /\ tuples_to_query = {}
    /\ queries = EmptyDict
    /\ todo = {}
    /\ start = 0
    /\ now = 0
    /\ clock = 0
    /\ sent = EmptyDict
    /\ hard_failed = EmptyDict
    /\ only_timeouts = TRUE
    /\ scripted = TRUE
    /\ last_response = None
    /\ call_orders = <<>>
    /\ extract_args = None
    /\ extract_result = None

\* The test of line 94.
ConfigErrorEither(args) == args.lifetime = None \/ args.max_attempts = None

ConfigError(args) == args.lifetime = None /\ args.max_attempts = None

\* Resolver.__init__, lines 93-102
Construct ==
    /\ pc = "new"
    /\ IF ConfigError(ctor_args)
       THEN /\ pc' = "ValueError"
            /\ self' = self
       ELSE /\ pc' = "ready"
            /\ self' = Some(ctor_args)
    /\ UNCHANGED <<ctor_args, allow_noanswer, batch, batch_vars, clock,
                   history_vars, extract_vars>>

\* lines 131-152
QueryMultipleBegin ==
    /\ pc = "ready"
    /\ query_tuples' = Range(batch)
    /\ attempts' = [q \in Range(batch) |-> 0]
    /\ valid_servers' = [q \in Range(batch) |-> Range(S.servers)]
    /\ answers' = EmptyDict
    /\ servers' \in (IF S.shuffle THEN Shuffles(S.servers) ELSE {S.servers})
    /\ self' = Some([S EXCEPT !.servers = ConfiguredAfter(S.servers, servers')])
    /\ call_orders' = Append(call_orders, servers')
    /\ tuples_to_query' = Pending(Range(batch), EmptyDict)
    /\ start' = clock
    /\ sent' = [q \in Range(batch) |-> [s \in Servers |-> 0]]
    /\ hard_failed' = [q \in Range(batch) |-> {}]
    /\ pc' = "while"
    /\ UNCHANGED <<ctor_args, allow_noanswer, batch, queries, todo, now, clock,
                   only_timeouts, scripted, last_response, extract_vars>>

\* line 153: something is pending and the clock the test reads is within
\* the lifetime; the loop body is entered.
LoopTest ==
    /\ pc = "while"
    /\ tuples_to_query # {}
    /\ \E d \in ClockSteps :
          /\ WithinLifetime(clock + d)
          /\ clock' = clock + d
    /\ pc' = "for"
    /\ UNCHANGED <<config_vars, batch_vars, history_vars, extract_vars>>

\* lines 154-174: line 154 reads the clock again; the for loop decides for
\* every pending question.  The questions are decided independently of each
\* other; an exception raised for any of them ends the call.
ScheduleRound ==
    /\ pc = "for"
    /\ \E d \in ClockSteps :
          /\ now' = clock + d
          /\ clock' = clock + d
    /\ LET decided == [q \in tuples_to_query |-> Decide(q)]
           raising == {q \in tuples_to_query :
                          decided[q].kind \in {"TypeError", "ZeroDivisionError"}}
           enqueued == {q \in tuples_to_query : decided[q].kind = "query"}
       IN  IF raising # {}
           THEN /\ pc' \in {decided[q].kind : q \in raising}
                /\ UNCHANGED <<answers, attempts, queries, sent>>
           ELSE /\ pc' = "execute"
                /\ answers' =
                      [q \in DOMAIN answers \cup (tuples_to_query \ enqueued) |->
                          IF q \in tuples_to_query
                          THEN Outcome(decided[q].kind, None, None)
                          ELSE answers[q]]
                /\ attempts' =
                      [q \in DOMAIN attempts |->
                          IF q \in tuples_to_query THEN decided[q].attempts
                          ELSE attempts[q]]
                /\ queries' =
                      [q \in enqueued |->
                          [server |-> Val(decided[q].server),
                           timeout |-> QueryTimeout(now'),
                           max_attempts |-> 1]]
                /\ sent' =
                      [q \in DOMAIN sent |->
                          IF q \in enqueued
                          THEN [sent[q] EXCEPT ![Val(decided[q].server)] = @ + 1]
                          ELSE sent[q]]
    /\ UNCHANGED <<config_vars, query_tuples, servers, valid_servers,
                   tuples_to_query, todo, start, hard_failed,
                   only_timeouts, scripted, last_response, call_orders,
                   extract_vars>>

\* line 153 fails: nothing is pending (the clock is not read then), or the
\* clock the test reads is not within the lifetime; lines 195-198
LoopExit ==
    /\ pc = "while"
    /\ IF tuples_to_query = {}
       THEN clock' = clock
       ELSE \E d \in ClockSteps :
               /\ ~WithinLifetime(clock + d)
               /\ clock' = clock + d
    /\ answers' = FinalAnswers(answers, tuples_to_query)
    /\ pc' = "done"
    /\ UNCHANGED <<config_vars, query_tuples, servers, valid_servers, attempts,
                   tuples_to_query, queries, todo, start, now,
                   history_vars, extract_vars>>

\* The three-server script: one question, the servers in their configured
\* order; the first answers malformed, the second times out, the third gives
\* a complete valid response holding the answer.
FollowsScript(q, server, response) ==
    /\ Len(S.servers) = 3
    /\ Cardinality(Range(S.servers)) = 3
    /\ ~S.shuffle
    /\ Cardinality(query_tuples) = 1
    /\ server = S.servers[1] => IsMalformed(response)
    /\ server = S.servers[2] => IsPureTimeout(response)
    /\ server = S.servers[3] =>
          /\ IsCompleteValid(response)
          /\ DNSAnswer(FALSE, q[1], q[2], Val(response.message), server).kind = "Answer"

\* The timeout the round's queries were given (they all carry the same).
RoundTimeout ==
    IF DOMAIN queries = {} THEN 0
    ELSE queries[CHOOSE q \in DOMAIN queries : TRUE].timeout

\* How long execute_queries may take: every query returns within the timeout
\* it was given, so the round takes at most that long; with nothing to
\* execute the call returns at once.
RoundDuration == 0..RoundTimeout

\* line 176: the barrier
ExecuteQueries ==
    /\ pc = "execute"
    /\ \E d \in RoundDuration : clock' = clock + d
    /\ todo' = DOMAIN queries
    /\ pc' = "process"
    /\ UNCHANGED <<config_vars, query_tuples, servers, valid_servers, answers,
                   attempts, tuples_to_query, queries, start, now, sent,
                   hard_failed, only_timeouts, scripted, last_response,
                   call_orders, extract_vars>>

\* lines 179-191 for one query of the for loop; response is the one response
\* its query holds (lines 179-180)
Process(q) ==
    /\ pc = "process"
    /\ q \in todo
    /\ todo' = todo \ {q}
    /\ \E response \in Responses :
        LET server == queries[q].server
        IN  /\ last_response' = Some(response)
            /\ only_timeouts' = (only_timeouts /\ IsPureTimeout(response))
            /\ scripted' = (scripted /\ FollowsScript(q, server, response))
            /\ IF IsCompleteValid(response)
               THEN \* lines 182-185
                    /\ answers' = DictSet(answers, q,
                                      DNSAnswer(allow_noanswer, q[1], q[2],
                                                Val(response.message), server))
                    /\ UNCHANGED <<valid_servers, hard_failed>>
               ELSE IF IsHardFailure(response)
               THEN \* line 191
                    /\ valid_servers' = RemoveServer(valid_servers, q, server)
                    /\ hard_failed' = [hard_failed EXCEPT ![q] = @ \cup {server}]
                    /\ UNCHANGED answers
               ELSE UNCHANGED <<answers, valid_servers, hard_failed>>
    /\ UNCHANGED <<pc, config_vars, query_tuples, servers, attempts,
                   tuples_to_query, queries, start, now, clock, sent,
                   call_orders, extract_vars>>

\* line 193
EndRound ==
    /\ pc = "process"
    /\ todo = {}
    /\ tuples_to_query' = Pending(query_tuples, answers)
    /\ pc' = "while"
    /\ last_response' = None
    /\ UNCHANGED <<config_vars, query_tuples, servers, valid_servers, answers,
                   attempts, queries, todo, start, now, clock, sent,
                   hard_failed, only_timeouts, scripted, call_orders,
                   extract_vars>>

Next ==
    \/ Construct
    \/ QueryMultipleBegin
    \/ LoopTest
    \/ ScheduleRound
    \/ LoopExit
    \/ ExecuteQueries
    \/ \E q \in Questions : Process(q)
    \/ EndRound

Spec == Init /\ [][Next]_vars

\* query_multiple called again on the same Resolver, with the same batch,
\* after the previous call returned (line 198): the locals of lines 131-152
\* are new, the Resolver's fields are what they were, and the clock is
\* counted from this call.
CallAgain ==
    /\ pc = "done"
    /\ Len(call_orders) < MaxCalls
    /\ pc' = "ready"
    /\ query_tuples' = {}
    /\ servers' = <<>>
    /\ valid_servers' = EmptyDict
    /\ answers' = EmptyDict
    /\ attempts' = EmptyDict
    /\ tuples_to_query' = {}
    /\ queries' = EmptyDict
    /\ todo' = {}
    /\ start' = 0
    /\ now' = 0
    /\ sent' = EmptyDict
    /\ hard_failed' = EmptyDict
    /\ only_timeouts' = TRUE
    /\ scripted' = TRUE
    /\ last_response' = None
    /\ clock' = 0
    /\ UNCHANGED <<config_vars, call_orders, extract_vars>>

CallsNext == Next \/ CallAgain

\* Resolvers made with shuffle=True.
CallsInit == Init /\ ctor_args.shuffle

CallsSpec == CallsInit /\ [][CallsNext]_vars

TypeOK ==
    /\ pc \in {"new", "ValueError", "ready", "while", "for", "execute", "process",
               "done", "TypeError", "ZeroDivisionError"}
    /\ DOMAIN answers \subseteq query_tuples

(***************************************************************************)
(* The extractor called on its own: ExtractSpec draws the arguments of     *)
(* answer_cls(qname, rdtype, response, server) and applies it once.        *)
(***************************************************************************)
\* Answer sections over the names 0..MaxName: per name an optional CNAME
\* record set and an optional A record set.
SmallSections ==
    {{CNAMERRset(n, Val(cn[n])) : n \in {m \in Names : cn[m] # None}}
        \cup {ARRset(n) : n \in as} :
     cn \in [Names -> {None} \cup {Some(t) : t \in Names}], as \in SUBSET Names}

\* The chain 0 -> 1 -> ... -> k of CNAME record sets, with or without an A
\* record set at its end.
ChainSection(k, withA) ==
    {CNAMERRset(n, n + 1) : n \in 0..(k - 1)}
        \cup (IF withA THEN {ARRset(k)} ELSE {})

ChainSections == {ChainSection(k, withA) : k \in (MaxName + 1)..MaxChain, withA \in BOOLEAN}

ExtractArgs ==
    [tolerant : BOOLEAN, qname : Names, rdtype : RdTypes,
     response : {Message(rc, sec) : rc \in {NOERROR, NXDOMAIN},
                                    sec \in SmallSections \cup ChainSections},
     server : {1}]

ExtractInit ==
    /\ pc = "extract"
    /\ extract_args \in {Some(a) : a \in ExtractArgs}
    /\ extract_result = None
    /\ ctor_args = None
    /\ self = None
    /\ allow_noanswer = FALSE
    /\ batch = <<>>
    /\ query_tuples = {}
    /\ servers = <<>>
    /\ valid_servers = EmptyDict
    /\ answers = EmptyDict
    /\ attempts = EmptyDict
    /\ tuples_to_query = {}
    /\ queries = EmptyDict
    /\ todo = {}
    /\ start = 0
    /\ now = 0
    /\ clock = 0
    /\ sent = EmptyDict
    /\ hard_failed = EmptyDict
    /\ only_timeouts = TRUE
    /\ scripted = TRUE
    /\ last_response = None
    /\ call_orders = <<>>

\* DNSAnswer.__init__ / DNSAnswerNoAnswerAllowed.__init__, lines 51-73: the
\* outcome, the loop state the while loop ended in (None when
\* _handle_nxdomain raised before it), and the outcome of the other of the
\* two classes on the same arguments.
Extract ==
    /\ pc = "extract"
    /\ LET a == Val(extract_args)
       IN  extract_result' =
              Some([outcome |-> DNSAnswer(a.tolerant, a.qname, a.rdtype,
                                          a.response, a.server),
                    other |-> DNSAnswer(~a.tolerant, a.qname, a.rdtype,
                                        a.response, a.server),
                    loop |-> IF handle_nxdomain(a.response) THEN None
                             ELSE Some(ChaseLoop(a.response.answer, a.rdtype,
                                                 ChaseStart(a.qname)))])
    /\ pc' = "extracted"
    /\ UNCHANGED <<config_vars, batch_vars, clock, history_vars, extract_args>>

ExtractNext == Extract

ExtractSpec == ExtractInit /\ [][ExtractNext]_vars

FairSpec == Spec /\ WF_vars(Next)

(***************************************************************************)
(* Properties.                                                             *)
(***************************************************************************)
Constructed == self # None
Returned == pc = "done"
TheQuestion == CHOOSE q \in query_tuples : TRUE
Scheduled == pc = "for" /\ pc' = "execute"
Processed(q) == pc = "process" /\ q \in todo /\ todo' = todo \ {q}

\* C1: when query_multiple returns, the keys of the mapping are exactly the
\* deduplicated questions of the batch and every key holds one terminal
\* outcome: an Answer with its server, or one of the four errors.
C1_TotalCoverage ==
    Returned =>
        /\ DOMAIN answers = Range(batch)
        /\ \A q \in DOMAIN answers :
              /\ answers[q].kind \in OutcomeKinds
              /\ answers[q].kind = "Answer" <=> answers[q].server # None

C1_Witness ==
    /\ Returned
    /\ Len(batch) = 2 /\ batch[1] = batch[2]
    /\ Cardinality(DOMAIN answers) = 1
    /\ answers[batch[1]].kind = "Answer"

\* C2 as stated: with a lifetime L configured and nothing but pure timeouts
\* received, every question of the returned mapping holds Timeout, the
\* clock of every round is before start + L when the round begins, and no
\* round's wait ends after start + L.
C2_Original ==
    (Constructed /\ S.lifetime # None) =>
        /\ pc = "execute" => now < start + Val(S.lifetime)
        /\ pc = "process" => clock <= start + Val(S.lifetime)
        /\ (Returned /\ only_timeouts) =>
              \A q \in query_tuples : answers[q] = ErrTimeout

\* C2: with a lifetime L configured the call always returns; the loop test
\* that lets a round begin reads a clock before start + L; the wait of a
\* round ends no later than start + L or, when the round's now was already
\* past that, no later than now; and with at least one server configured
\* and nothing but pure timeouts received, every question holds Timeout.
C2_LifetimeBounds ==
    /\ (ctor_args.lifetime # None) => <>Returned
    /\ [](Constructed /\ S.lifetime # None =>
            /\ pc = "for" => clock < start + Val(S.lifetime)
            /\ pc = "process" =>
                  (clock <= start + Val(S.lifetime) \/ clock <= now)
            /\ (Returned /\ only_timeouts /\ S.servers # <<>>) =>
                  \A q \in query_tuples : answers[q] = ErrTimeout)

C2_Witness ==
    /\ Returned
    /\ S.lifetime # None
    /\ only_timeouts
    /\ S.servers # <<>>
    /\ query_tuples # {}
    /\ now >= start + Val(S.lifetime)
    /\ \E q \in query_tuples : \E s \in Servers : sent[q][s] = 2

\* C3: an outcome, once recorded, is never overwritten or removed, and no
\* query is dispatched for its question afterwards.
C3_OutcomeFinal ==
    [][\A q \in DOMAIN answers :
          /\ q \in DOMAIN answers'
          /\ answers'[q] = answers[q]
          /\ sent'[q] = sent[q]]_vars

C3_Witness ==
    /\ pc = "execute"
    /\ \E q \in DOMAIN answers, p \in DOMAIN queries :
          /\ answers[q].kind \in {"NXDOMAIN", "NoAnswer"}
          /\ Cardinality(valid_servers[q]) >= 2
          /\ sent[p][queries[p].server] = 1
          /\ sent[q][queries[p].server] = 0

\* C4 as stated: a question whose valid-server set became empty holds
\* NoNameservers once the round in which that happened is over, and when
\* the call returns.
C4_Original ==
    \A q \in query_tuples :
        (pc \in {"while", "done"} /\ valid_servers[q] = {} /\ hard_failed[q] # {}) =>
            (q \in DOMAIN answers /\ answers[q] = ErrNoNameservers)

\* C4: a question whose valid-server set became empty is never queried
\* again; the scheduling step of the next round records NoNameservers for
\* it, and if the lifetime runs out before that round it is returned as
\* Timeout; it never gets any other outcome.
C4_NoNameserversNextRound ==
    /\ [](\A q \in query_tuples :
            (valid_servers[q] = {} /\ hard_failed[q] # {}) =>
                /\ pc = "execute" =>
                      (q \in DOMAIN answers /\ answers[q] = ErrNoNameservers)
                /\ q \in DOMAIN answers =>
                      \/ answers[q] = ErrNoNameservers
                      \/ /\ answers[q] = ErrTimeout
                         /\ Returned
                         /\ ~WithinLifetime(clock))
    /\ [][\A q \in query_tuples :
            (valid_servers[q] = {} /\ q \in DOMAIN sent') => sent'[q] = sent[q]]_vars

C4_Witness ==
    /\ pc = "execute"
    /\ \E q \in query_tuples :
          /\ valid_servers[q] = {}
          /\ Cardinality(hard_failed[q]) = 2
          /\ q \in DOMAIN answers
          /\ answers[q] = ErrNoNameservers

\* C5: every query of a round goes to a server that is in its question's
\* valid-server set and that has never failed hard for that question.
C5_DispatchOnlyValid ==
    pc = "execute" =>
        \A q \in DOMAIN queries :
            /\ queries[q].server \in valid_servers[q]
            /\ queries[q].server \notin hard_failed[q]

C5_Witness ==
    /\ pc = "execute"
    /\ \E q \in DOMAIN queries :
          /\ hard_failed[q] # {}
          /\ queries[q].server \notin hard_failed[q]
          /\ sent[q][queries[q].server] = 2

\* What the last handled response was, read off the response itself.
LastWasSoft ==
    /\ last_response' # None
    /\ ~IsCompleteValid(Val(last_response'))
    /\ Val(last_response').message = None
    /\ Val(last_response').error \in
          {Some(RESPONSE_ERROR_TIMEOUT), Some(RESPONSE_ERROR_NETWORK_ERROR)}

LastWasHard ==
    /\ last_response' # None
    /\ ~IsCompleteValid(Val(last_response'))
    /\ ~LastWasSoft

\* C6: handling the response of question q's query changes the valid-server
\* set, attempt counter and outcome of no other question; a hard failure
\* removes exactly the queried server from q's set; a timeout or network
\* error without a message changes no valid-server set.
C6_ProcessFrame ==
    [][\A q \in query_tuples :
          Processed(q) =>
              /\ \A p \in query_tuples \ {q} :
                    /\ valid_servers'[p] = valid_servers[p]
                    /\ attempts'[p] = attempts[p]
                    /\ p \in DOMAIN answers <=> p \in DOMAIN answers'
                    /\ p \in DOMAIN answers => answers'[p] = answers[p]
              /\ attempts'[q] = attempts[q]
              /\ LastWasHard =>
                    valid_servers'[q] = valid_servers[q] \ {queries[q].server}
              /\ LastWasSoft => valid_servers' = valid_servers]_vars

C6_Witness ==
    /\ pc = "process"
    /\ last_response # None
    /\ IsMalformed(Val(last_response))
    /\ \E q \in DOMAIN queries \ todo, p \in todo :
          /\ queries[q].server = queries[p].server
          /\ queries[q].server \notin valid_servers[q]
          /\ queries[q].server \in valid_servers[p]

\* C7: with max_attempts a number, no attempt counter exceeds
\* max_attempts * server_count; and a round that starts with a pending
\* question whose valid-server set is not empty and whose cycle number has
\* reached max_attempts records Timeout for it and sends no query for it.
C7_AttemptsBounded ==
    /\ [](Constructed /\ S.max_attempts # None =>
            \A q \in query_tuples :
                attempts[q] <= Val(S.max_attempts) * Len(servers))
    /\ [][(Scheduled /\ S.max_attempts # None) =>
            \A q \in tuples_to_query :
                (/\ valid_servers[q] # {}
                 /\ attempts[q] \div Len(servers) >= Val(S.max_attempts)) =>
                    /\ q \in DOMAIN answers' /\ answers'[q] = ErrTimeout
                    /\ q \notin DOMAIN queries'
                    /\ sent'[q] = sent[q]
                    /\ attempts'[q] = attempts[q]]_vars

C7_Witness ==
    /\ pc = "execute"
    /\ S.max_attempts # None
    /\ Val(S.max_attempts) >= 2
    /\ Len(servers) = 2
    /\ WithinLifetime(clock)
    /\ \E q \in DOMAIN answers :
          /\ answers[q] = ErrTimeout
          /\ attempts[q] = Val(S.max_attempts) * Len(servers)
          /\ valid_servers[q] # {}

\* C8: one question, servers [s0, s1, s2] unshuffled, max_attempts >= 1 and
\* the call returning within its lifetime: if s0 answered malformed, s1 timed
\* out and s2 gave a complete valid response with the answer, the outcome is
\* an Answer from s2, s0 was queried exactly once and is no longer valid.
C8_ThreeServerScenario ==
    (/\ Returned
     /\ scripted
     /\ query_tuples # {}
     /\ Len(S.servers) = 3
     /\ S.max_attempts # None
     /\ S.lifetime # None
     /\ WithinLifetime(clock)) =>
        (Val(S.max_attempts) >= 1 =>
            /\ answers[TheQuestion].kind = "Answer"
            /\ answers[TheQuestion].server = Some(S.servers[3])
            /\ sent[TheQuestion][S.servers[1]] = 1
            /\ sent[TheQuestion][S.servers[2]] = 1
            /\ sent[TheQuestion][S.servers[3]] = 1
            /\ S.servers[1] \notin valid_servers[TheQuestion]
            /\ S.servers[2] \in valid_servers[TheQuestion])

C8_Witness ==
    /\ Returned
    /\ scripted
    /\ Len(S.servers) = 3
    /\ query_tuples # {}
    /\ WithinLifetime(clock)
    /\ answers[TheQuestion].kind = "Answer"
    /\ answers[TheQuestion].server = Some(S.servers[3])
    /\ hard_failed[TheQuestion] = {S.servers[1]}

\* The CNAME target at a name of an answer section, and the names k hops
\* from a name.
Target(answer, n) ==
    {Val(rr.target) : rr \in {x \in answer : x.name = n /\ x.rdtype = "CNAME"}}

RECURSIVE Reach(_, _, _)
Reach(answer, n, k) ==
    IF k = 0 THEN {n}
    ELSE UNION {Target(answer, m) : m \in Reach(answer, n, k - 1)}

HasType(answer, n, rdtype) == \E rr \in answer : rr.name = n /\ rr.rdtype = rdtype

\* C9: for every answer section the chain-following loop makes at most
\* MAX_CNAME_REDIRECTION passes; and when it ends without a record set of
\* the requested type, the strict extractor's result is NoAnswer.
C9_ChaseBounded ==
    (pc = "extracted" /\ Val(extract_result).loop # None) =>
        LET a == Val(extract_args)
            r == Val(extract_result)
            st == Val(r.loop)
        IN  /\ st.iters <= MAX_CNAME_REDIRECTION
            /\ (st.rrset = None /\ ~a.tolerant) => r.outcome = ErrNoAnswer
            /\ (st.rrset = None /\ a.tolerant) => r.outcome = Answer(a.server, None)

C9_Witness ==
    /\ pc = "extracted"
    /\ Val(extract_args).response.answer = {CNAMERRset(0, 1), CNAMERRset(1, 0)}
    /\ Val(extract_args).rdtype = "A"
    /\ ~Val(extract_args).tolerant
    /\ Val(extract_result).loop # None
    /\ Val(Val(extract_result).loop).iters = MAX_CNAME_REDIRECTION
    /\ Val(extract_result).outcome = ErrNoAnswer

\* C10: a record set the extractor returns is a record set of the answer
\* section, has the requested type, and its owner is the first name holding
\* that type on the CNAME chain that starts at the requested name.
C10_FinalNameRRset ==
    (pc = "extracted" /\ Val(extract_result).outcome.kind = "Answer"
                      /\ Val(extract_result).outcome.rrset # None) =>
        LET a == Val(extract_args)
            rr == Val(Val(extract_result).outcome.rrset)
        IN  /\ rr \in a.response.answer
            /\ rr.rdtype = a.rdtype
            /\ \E k \in 0..(MAX_CNAME_REDIRECTION - 1) :
                  /\ rr.name \in Reach(a.response.answer, a.qname, k)
                  /\ \A j \in 0..(k - 1) :
                        \A m \in Reach(a.response.answer, a.qname, j) :
                            ~HasType(a.response.answer, m, a.rdtype)

C10_Witness ==
    /\ pc = "extracted"
    /\ Val(extract_args).qname = 0
    /\ Val(extract_args).rdtype = "A"
    /\ Val(extract_args).response.answer =
          {CNAMERRset(0, 1), CNAMERRset(1, 2), ARRset(2)}
    /\ Val(extract_result).outcome.kind = "Answer"
    /\ Val(extract_result).outcome.rrset = Some(ARRset(2))

\* C11: constructing a Resolver with lifetime None and max_attempts None
\* raises ValueError with no field set, and no batch is ever started on it;
\* with at least one of the two given the construction succeeds and stores
\* the arguments.
C11_ConstructionGuard ==
    /\ [][pc = "new" =>
            IF ctor_args.lifetime = None /\ ctor_args.max_attempts = None
            THEN pc' = "ValueError" /\ self' = None
            ELSE pc' = "ready" /\ self' = Some(ctor_args)]_vars
    /\ [](pc = "ValueError" =>
            /\ self = None
            /\ query_tuples = {} /\ answers = EmptyDict /\ sent = EmptyDict)
    /\ [][pc = "ValueError" => pc' = "ValueError"]_vars

C11_Witness ==
    /\ pc = "ValueError"
    /\ self = None
    /\ ctor_args.servers # <<>>
    /\ Len(batch) = 2

\* The server of attempt slot a in this call's server order (line 168).
SlotServer(a) == servers[(a % Len(servers)) + 1]

\* C12 as stated, for the questions that are still pending after the
\* scheduling step of a round: the step adds exactly one to their counter.
C12_Original ==
    [][Scheduled =>
          \A q \in tuples_to_query \ DOMAIN answers' :
              attempts'[q] = attempts[q] + 1]_vars

\* C12: the scheduling step of a round advances the counter of a pending
\* question by one per attempt slot it consumes: one for every slot it skips
\* because the slot's server was invalidated, and one for the slot whose
\* query it dispatches.  A question that gets a query is advanced by at
\* least one; a question resolved to Timeout only by the slots skipped
\* before the cycle test fired; a question resolved to NoNameservers not at
\* all.  No other step changes a counter.
C12_CounterPerSlot ==
    /\ [][Scheduled =>
            \A q \in tuples_to_query :
                LET skipped == attempts[q]..(attempts'[q] - (IF q \in DOMAIN queries' THEN 2 ELSE 1))
                IN  /\ attempts'[q] >= attempts[q]
                    /\ \A a \in skipped : SlotServer(a) \notin valid_servers[q]
                    /\ q \in DOMAIN queries' =>
                          /\ attempts'[q] >= attempts[q] + 1
                          /\ queries'[q].server = SlotServer(attempts'[q] - 1)
                          /\ queries'[q].server \in valid_servers[q]
                    /\ valid_servers[q] = {} => attempts'[q] = attempts[q]]_vars
    /\ [][(pc \in {"execute", "process"}) => attempts' = attempts]_vars

C12_Witness ==
    /\ pc = "execute"
    /\ Len(servers) = 2
    /\ \E q \in DOMAIN queries :
          /\ attempts[q] = 4
          /\ Cardinality(hard_failed[q]) = 1
          /\ sent[q][queries[q].server] = 2

\* C13: the scheduling step of a round gives every question pending at its
\* start either exactly one query, to the first still-valid server found
\* by trying consecutive attempt slots, or an outcome that is NoNameservers
\* or Timeout and no query; it dispatches nothing for a question that had
\* an outcome before; and a round cut short by an exception dispatches
\* nothing at all.
C13_OneQueryPerRound ==
    /\ [][Scheduled =>
            /\ DOMAIN queries' \subseteq tuples_to_query
            /\ \A q \in tuples_to_query :
                  /\ q \in DOMAIN queries' <=> q \notin DOMAIN answers'
                  /\ q \in DOMAIN queries' =>
                        /\ queries'[q].server = SlotServer(attempts'[q] - 1)
                        /\ queries'[q].server \in valid_servers[q]
                        /\ \A a \in attempts[q]..(attempts'[q] - 2) :
                              SlotServer(a) \notin valid_servers[q]
                        /\ \A s \in Servers :
                              sent'[q][s] = sent[q][s] +
                                  (IF s = queries'[q].server THEN 1 ELSE 0)
                  /\ q \in DOMAIN answers' =>
                        /\ answers'[q] \in {ErrNoNameservers, ErrTimeout}
                        /\ sent'[q] = sent[q]
            /\ \A q \in DOMAIN answers :
                  q \notin DOMAIN queries' /\ sent'[q] = sent[q]]_vars
    /\ [][(pc \notin {"for", "ready"}) => sent' = sent]_vars
    /\ [][(pc = "for" /\ pc' # "execute") => sent' = sent]_vars

C13_Witness ==
    /\ pc = "execute"
    /\ \E q \in DOMAIN queries, p \in DOMAIN answers :
          /\ hard_failed[q] # {}
          /\ sent[q][queries[q].server] = 1
          /\ answers[p].kind = "Answer"

\* C14: with max_attempts a number, no server is queried more than
\* max_attempts times for one question; and a question that holds Timeout
\* with its attempt counter exhausted has queried every server still in its
\* valid-server set exactly max_attempts times.
C14_PerServerCeiling ==
    (Constructed /\ S.max_attempts # None /\ pc \in {"while", "execute", "process", "done"}) =>
        \A q \in query_tuples :
            /\ \A s \in Servers : sent[q][s] <= Val(S.max_attempts)
            /\ (/\ q \in DOMAIN answers
                /\ answers[q] = ErrTimeout
                /\ servers # <<>>
                /\ attempts[q] = Val(S.max_attempts) * Len(servers)) =>
                   \A s \in valid_servers[q] : sent[q][s] = Val(S.max_attempts)

\* C15: with a lifetime L configured, every query of a round carries the
\* timeout min(per-attempt timeout, max(0, start + L - now)), now being the
\* one reading of the clock at the start of the round: it is not negative,
\* not above the per-attempt timeout and not above the budget left at that
\* reading (nothing, once now is past start + L); and every query is made
\* with max_attempts = 1.
C15_QueryTimeout ==
    (pc = "execute" /\ S.lifetime # None) =>
        \A q \in DOMAIN queries :
            LET left == (start + Val(S.lifetime)) - now
                remaining == IF left <= 0 THEN 0 ELSE left
                expected == IF remaining < S.timeout THEN remaining
                            ELSE S.timeout
            IN  /\ queries[q].timeout = expected
                /\ queries[q].timeout >= 0
                /\ queries[q].timeout <= S.timeout
                /\ queries[q].timeout <= remaining
                /\ queries[q].max_attempts = 1

C15_Witness ==
    /\ pc = "execute"
    /\ S.lifetime # None
    /\ now > start + Val(S.lifetime)
    /\ \E q \in DOMAIN queries :
          /\ queries[q].timeout = 0
          /\ sent[q][queries[q].server] = 2

\* C16: with no lifetime configured and max_attempts a number, the call
\* raises no error and every query it dispatches carries the per-attempt
\* timeout.
C16_NoLifetimeUnbounded ==
    (Constructed /\ S.lifetime = None /\ S.max_attempts # None) =>
        /\ pc # "TypeError"
        /\ pc = "execute" =>
              \A q \in DOMAIN queries : queries[q].timeout = S.timeout

\* C17: with max_attempts None and a lifetime configured, a question is
\* resolved to Timeout only when the call returns with the lifetime
\* elapsed, and a round leaves no pending question with a valid server
\* without a query.
C17_LifetimeAloneBounds ==
    (Constructed /\ S.max_attempts = None /\ S.lifetime # None) =>
        /\ \A q \in DOMAIN answers :
              answers[q] = ErrTimeout => (Returned /\ ~WithinLifetime(clock))
        /\ pc = "execute" =>
              \A q \in tuples_to_query :
                  valid_servers[q] # {} => q \in DOMAIN queries

\* C18 as stated: two calls on the same shuffling Resolver use the same
\* server order.
C18_Original ==
    Len(call_orders) = 2 => call_orders[2] = call_orders[1]

\* C18: with shuffle enabled the order is drawn anew by every call, as a
\* rearrangement of the configured list, so that two calls on one Resolver
\* may differ in it; within a call the order stays what it was drawn as,
\* for all questions and rounds; and the Resolver's configured list is
\* never changed.
C18_ShufflePerCall ==
    /\ [](Constructed =>
            /\ S.servers = ctor_args.servers
            /\ \A i \in DOMAIN call_orders :
                  /\ Len(call_orders[i]) = Len(S.servers)
                  /\ \A s \in Servers :
                        Cardinality({j \in DOMAIN call_orders[i] : call_orders[i][j] = s})
                            = Cardinality({j \in DOMAIN S.servers : S.servers[j] = s})
            /\ pc \in {"while", "execute", "process", "done"} =>
                  servers = call_orders[Len(call_orders)])
    /\ [][(pc \in {"while", "execute", "process"}) => servers' = servers]_vars

C18_Witness ==
    /\ Returned
    /\ Len(call_orders) = 2
    /\ call_orders[2] # call_orders[1]
    /\ S.servers = ctor_args.servers
    /\ servers = call_orders[2]
    /\ \E q \in query_tuples :
          /\ sent[q][servers[1]] = 1
          /\ sent[q][servers[2]] = 0

\* C19: on the same arguments the strict and the tolerant extractor both
\* raise NXDOMAIN, before any chain following, when the response code is
\* NXDOMAIN; otherwise, when a record set of the requested type is found
\* within the followed chain both give the same Answer with that record
\* set; and when none is found the tolerant one gives an Answer with no
\* record set where the strict one raises NoAnswer.  They differ in no
\* other case.
C19_TolerantVariant ==
    pc = "extracted" =>
        LET a == Val(extract_args)
            r == Val(extract_result)
            strict == IF a.tolerant THEN r.other ELSE r.outcome
            tolerant == IF a.tolerant THEN r.outcome ELSE r.other
            nxdomain == a.response.rcode = NXDOMAIN
            found == \E k \in 0..(MAX_CNAME_REDIRECTION - 1) :
                        \E m \in Reach(a.response.answer, a.qname, k) :
                            HasType(a.response.answer, m, a.rdtype)
        IN  /\ nxdomain =>
                  /\ strict = ErrNXDOMAIN /\ tolerant = ErrNXDOMAIN
                  /\ r.loop = None
            /\ (~nxdomain /\ found) =>
                  /\ strict = tolerant
                  /\ strict.kind = "Answer" /\ strict.rrset # None
            /\ (~nxdomain /\ ~found) =>
                  /\ strict = ErrNoAnswer
                  /\ tolerant = Answer(a.server, None)
            /\ strict # tolerant <=> (~nxdomain /\ ~found)

C19_Witness ==
    /\ pc = "extracted"
    /\ Val(extract_args).tolerant
    /\ Val(extract_args).qname = 0
    /\ Val(extract_args).rdtype = "A"
    /\ Val(extract_args).response = Message(NOERROR, {CNAMERRset(0, 1)})
    /\ Val(extract_result).outcome = Answer(Val(extract_args).server, None)
    /\ Val(extract_result).other = ErrNoAnswer

\* C20: on a Resolver with an empty server list a call raises nothing,
\* sends no query and leaves every counter at zero; a round, once its loop
\* test has passed, records NoNameservers for every question and is the
\* only round, and the call then returns NoNameservers for every question.
\* The call returns anything else only when its first loop test found the
\* lifetime elapsed.
C20_EmptyServerList ==
    /\ [](Constructed /\ S.servers = <<>> =>
            /\ pc \notin {"TypeError", "ZeroDivisionError"}
            /\ \A q \in DOMAIN sent : \A s \in Servers : sent[q][s] = 0
            /\ \A q \in DOMAIN attempts : attempts[q] = 0
            /\ pc = "for" => answers = EmptyDict
            /\ pc \in {"execute", "process"} =>
                  /\ queries = EmptyDict
                  /\ DOMAIN answers = query_tuples
                  /\ \A q \in query_tuples : answers[q] = ErrNoNameservers
            /\ Returned =>
                  \/ \A q \in query_tuples : answers[q] = ErrNoNameservers
                  \/ /\ S.lifetime # None
                     /\ ~WithinLifetime(clock)
                     /\ \A q \in query_tuples : answers[q] = ErrTimeout)
    /\ [][(Constructed /\ S.servers = <<>> /\ pc = "process" /\ pc' = "while") =>
            tuples_to_query' = {}]_vars
    /\ [][(Constructed /\ S.servers = <<>> /\ pc = "while" /\ pc' = "done"
              /\ answers # EmptyDict) => answers' = answers]_vars

C20_Witness ==
    /\ Returned
    /\ S.servers = <<>>
    /\ S.lifetime = None
    /\ Cardinality(query_tuples) = 2
    /\ \A q \in query_tuples : answers[q] = ErrNoNameservers

====
